---- MODULE Spec2Model ----
(***************************************************************************)
(* Model of the daily backtesting engine: the Portfolio ledger             *)
(* (src/backtest/portfolio.py) and the date-stepping loop of Backtester    *)
(* (src/backtest/backtester.py).                                           *)
(*                                                                         *)
(* Numbers.  The program computes with Python floats, IEEE 754 binary64     *)
(* numbers.  The model computes with the same numbers: a float is          *)
(* <<s, m, e>>, the value s * m * 2^e with a significand m of at most 53   *)
(* binary digits, or one of 0.0, -0.0, inf, -inf and nan, and every        *)
(* operation rounds its exact result to the nearest float, ties to even,   *)
(* overflowing to inf and underflowing through the subnormal numbers to    *)
(* zero.  Division by zero raises ZeroDivisionError, as Python float       *)
(* division does.                                                          *)
(***************************************************************************)
EXTENDS Integers, Sequences, FiniteSets, TLC

\* ------------------------------------------------------------------ bounds
MaxDate == 3        \* calendar dates are drawn from 1..MaxDate
MaxCapital == 2     \* initial capital is drawn from 0..MaxCapital
MaxPrice == 2       \* a present price is drawn from 0..MaxPrice
MaxOrders == 2      \* the policy returns at most MaxOrders orders per date
MaxTarget == 2      \* target_percent is k/2 for k in -1..MaxTarget
MaxQty == 2         \* direct buy (sell) calls take a quantity in -1 (0)..MaxQty
MaxCalls == 3       \* direct buy/sell call sequences have at most MaxCalls calls

Symbols == {"A", "B"}

\* --------------------------------------------------------- float arithmetic
\* Natural numbers of any size: the sequence of the base-2^14 digits, lowest
\* first, without high zero digits (0 is <<>>); they carry the 53-bit
\* significands and the intermediate results.
Base == 16384
BaseBits == 14

RECURSIVE IntBitLen(_)
IntBitLen(n) == IF n = 0 THEN 0 ELSE 1 + IntBitLen(n \div 2)

RECURSIVE BNFromInt(_)
BNFromInt(n) == IF n = 0 THEN <<>> ELSE <<n % Base>> \o BNFromInt(n \div Base)

RECURSIVE BNTrim(_)
BNTrim(a) ==
    IF a = <<>> THEN <<>>
    ELSE IF a[Len(a)] = 0 THEN BNTrim(SubSeq(a, 1, Len(a) - 1))
    ELSE a

BNRest(a) == IF a = <<>> THEN <<>> ELSE Tail(a)
BNLow(a) == IF a = <<>> THEN 0 ELSE a[1]

RECURSIVE BNAddC(_, _, _)
BNAddC(a, b, c) ==
    IF a = <<>> /\ b = <<>> THEN (IF c = 0 THEN <<>> ELSE <<c>>)
    ELSE LET x == BNLow(a) + BNLow(b) + c
         IN  <<x % Base>> \o BNAddC(BNRest(a), BNRest(b), x \div Base)

BNAdd(a, b) == BNAddC(a, b, 0)

\* a - b - c for a >= b + c, high zero digits kept.
RECURSIVE BNSubC(_, _, _)
BNSubC(a, b, c) ==
    IF a = <<>> THEN <<>>
    ELSE LET x == a[1] - BNLow(b) - c
         IN  IF x < 0 THEN <<x + Base>> \o BNSubC(Tail(a), BNRest(b), 1)
             ELSE <<x>> \o BNSubC(Tail(a), BNRest(b), 0)

BNSub(a, b) == BNTrim(BNSubC(a, b, 0))

RECURSIVE BNCmpAt(_, _, _)
BNCmpAt(a, b, i) ==
    IF i = 0 THEN 0
    ELSE IF a[i] < b[i] THEN -1
    ELSE IF a[i] > b[i] THEN 1
    ELSE BNCmpAt(a, b, i - 1)

\* -1, 0 or 1 as a < b, a = b or a > b.
BNCmp(a, b) ==
    IF Len(a) < Len(b) THEN -1
    ELSE IF Len(a) > Len(b) THEN 1
    ELSE BNCmpAt(a, b, Len(a))

\* a * x + c for a digit x > 0.
RECURSIVE BNMulDigit(_, _, _)
BNMulDigit(a, x, c) ==
    IF a = <<>> THEN (IF c = 0 THEN <<>> ELSE <<c>>)
    ELSE LET y == a[1] * x + c
         IN  <<y % Base>> \o BNMulDigit(Tail(a), x, y \div Base)

\* a * Base^n
BNShiftDigits(a, n) == IF a = <<>> THEN <<>> ELSE [i \in 1..n |-> 0] \o a

RECURSIVE BNMul(_, _)
BNMul(a, b) ==
    IF a = <<>> \/ b = <<>> THEN <<>>
    ELSE BNAdd(IF b[1] = 0 THEN <<>> ELSE BNMulDigit(a, b[1], 0),
               BNShiftDigits(BNMul(a, Tail(b)), 1))

\* a * 2^k
BNShl(a, k) ==
    BNShiftDigits(BNMulDigit(a, 2 ^ (k % BaseBits), 0), k \div BaseBits)

\* The digits i..1 of a \div d for a digit d > 0, rem being the remainder of
\* the digits above i.
RECURSIVE BNDivDigitAt(_, _, _, _)
BNDivDigitAt(a, d, i, rem) ==
    IF i = 0 THEN <<>>
    ELSE LET cur == rem * Base + a[i]
         IN  BNDivDigitAt(a, d, i - 1, cur % d) \o <<cur \div d>>

\* a \div 2^k
BNShr(a, k) ==
    LET n == k \div BaseBits
        hi == IF n >= Len(a) THEN <<>> ELSE SubSeq(a, n + 1, Len(a))
    IN  BNTrim(BNDivDigitAt(hi, 2 ^ (k % BaseBits), Len(hi), 0))

\* The number of binary digits of a.
BNBitLen(a) ==
    IF a = <<>> THEN 0 ELSE BaseBits * (Len(a) - 1) + IntBitLen(a[Len(a)])

\* a * x for a digit x >= 0.
BNTimes(a, x) == IF x = 0 THEN <<>> ELSE BNMulDigit(a, x, 0)

\* The largest digit x <= guess with x * d <= cur.
RECURSIVE BNQuotFix(_, _, _)
BNQuotFix(cur, d, guess) ==
    IF BNCmp(BNTimes(d, guess), cur) <= 0 THEN guess
    ELSE BNQuotFix(cur, d, guess - 1)

\* cur \div d for cur < d * Base and a d whose highest digit is Base/2 or
\* more: the quotient of the two highest digits of cur by the highest digit
\* of d is the digit or at most 2 above it.
BNQuotDigit(cur, d) ==
    LET k == Len(d)
        top == (IF Len(cur) > k THEN cur[k + 1] ELSE 0) * Base
                   + (IF Len(cur) >= k THEN cur[k] ELSE 0)
        guess == top \div d[k]
    IN  BNQuotFix(cur, d, IF guess > Base - 1 THEN Base - 1 ELSE guess)

\* Long division by d over the digits i..1 of n, rem < d being the remainder
\* of the digits above i: <<digits i..1 of the quotient, remainder>>.
RECURSIVE BNDivAt(_, _, _, _)
BNDivAt(n, d, i, rem) ==
    IF i = 0 THEN <<<<>>, rem>>
    ELSE LET cur == BNTrim(<<n[i]>> \o rem)
             x == BNQuotDigit(cur, d)
             rest == BNDivAt(n, d, i - 1, BNSub(cur, BNTimes(d, x)))
         IN  <<Append(rest[1], x), rest[2]>>

\* <<n \div d, n % d>> for d > 0; both are scaled to bring the highest digit
\* of d to Base/2 or more, which leaves the quotient as it is.
BNDivMod(n, d) ==
    LET s == BaseBits - IntBitLen(d[Len(d)])
        ns == BNShl(n, s)
        qr == BNDivAt(ns, BNShl(d, s), Len(ns), <<>>)
    IN  <<BNTrim(qr[1]), BNShr(qr[2], s)>>

\* A Python float (an IEEE 754 binary64 number) is <<s, m, e>>.  A finite
\* number other than zero is the value s * m * 2^e with sign s in {-1, 1} and
\* m an odd natural number below 2^53; its lowest binary digit weighs
\* 2^MinExp or more (below 2^-1022 a float has fewer than 53 digits: the
\* subnormal numbers) and it is below 2^MaxExp.  0.0, -0.0, inf, -inf and nan
\* are the five tuples with m = <<>> named below.  Every operation rounds its
\* exact result to the nearest float, ties to even: to inf from 2^MaxExp on,
\* to a multiple of 2^MinExp below 2^-1022, as the hardware does.
Precision == 53
MinExp == -1074
MaxExp == 1024

Zero == <<0, <<>>, 0>>
NegZero == <<0, <<>>, -1>>
Inf == <<1, <<>>, 0>>
NegInf == <<-1, <<>>, 0>>
NaN == <<0, <<>>, 1>>

IsNaN(x) == x = NaN
IsInf(x) == x = Inf \/ x = NegInf
\* x == 0: true of 0.0 and of -0.0
IsZero(x) == x = Zero \/ x = NegZero

\* The sign bit of x as -1 or 1.
Sign(x) == IF x[1] # 0 THEN x[1] ELSE IF x = NegZero THEN -1 ELSE 1
SignedZero(s) == IF s < 0 THEN NegZero ELSE Zero
SignedInf(s) == IF s < 0 THEN NegInf ELSE Inf

RECURSIVE IntTrailingZeros(_)
IntTrailingZeros(n) == IF n % 2 = 1 THEN 0 ELSE 1 + IntTrailingZeros(n \div 2)

\* s * m * 2^e, m > 0, with the factors of 2 moved from m into the exponent.
RECURSIVE Normalize(_, _, _)
Normalize(s, m, e) ==
    IF m[1] % 2 = 1 THEN <<s, m, e>>
    ELSE IF m[1] = 0 THEN Normalize(s, Tail(m), e + BaseBits)
    ELSE LET t == IntTrailingZeros(m[1])
         IN  <<s, BNShr(m, t), e + t>>

\* The float s * m * 2^e for an m that fits the digits a float has at that
\* magnitude: a zero, inf from 2^MaxExp on.
Finish(s, m, e) ==
    IF m = <<>> THEN SignedZero(s)
    ELSE IF e + BNBitLen(m) > MaxExp THEN SignedInf(s)
    ELSE Normalize(s, m, e)

\* Whether m, cut to q = m \div 2^k, is rounded up: the k digits cut off
\* are more than half of 2^k, or exactly half with q odd.
RoundUp(m, k, q) ==
    LET c == BNCmp(BNSub(m, BNShl(q, k)), BNShl(<<1>>, k - 1))
    IN  c > 0 \/ (c = 0 /\ BNLow(q) % 2 = 1)

\* m without its k lowest digits, rounded, at the exponent e + k.
RoundAt(s, m, e, k, q) ==
    Finish(s, IF RoundUp(m, k, q) THEN BNAdd(q, <<1>>) ELSE q, e + k)

\* The number of binary digits a float keeps of a value whose highest digit
\* weighs 2^top: Precision, or what lies at 2^MinExp and above (0 or less
\* when the value is below 2^MinExp).
KeptDigits(top) ==
    IF top >= MinExp + Precision - 1 THEN Precision ELSE top - MinExp + 1

\* m rounded to keep of its n binary digits.
RoundTo(s, m, e, n, keep) ==
    IF n <= keep
    THEN (IF e + n > MaxExp THEN SignedInf(s) ELSE Normalize(s, m, e))
    ELSE IF keep < 0 THEN SignedZero(s)
    ELSE RoundAt(s, m, e, n - keep, BNShr(m, n - keep))

\* Whether one of the j lowest binary digits of m is 1.
Sticky(m, j) ==
    \/ \E i \in 1..(j \div BaseBits) : m[i] # 0
    \/ m[j \div BaseBits + 1] % (2 ^ (j % BaseBits)) # 0

\* m \div 2^(j - 1) with its lowest digit set when m has a 1 among its j
\* lowest digits: it rounds as m does wherever more than one digit is cut.
Narrow(m, j) ==
    BNAdd(BNShl(BNShr(m, j), 1), IF Sticky(m, j) THEN <<1>> ELSE <<>>)

\* The float nearest to s * m * 2^e, ties to even, for an m of n digits that
\* needs no cut.
RoundDigits(s, m, e, n) == RoundTo(s, m, e, n, KeptDigits(e + n - 1))

\* The float nearest to s * m * 2^e, ties to even, for an m > 0 of n digits.
\* An m of more than 2 * Precision + BaseBits digits is first cut to its
\* highest Precision + 11 digits and the digit that stands for the rest.
RoundLong(s, m, e, n) ==
    IF n > 2 * Precision + BaseBits
    THEN RoundDigits(s, Narrow(m, n - Precision - 11),
                     e + n - Precision - 12, Precision + 12)
    ELSE RoundDigits(s, m, e, n)

\* The float nearest to s * m * 2^e, ties to even.
Round(s, m, e) ==
    IF m = <<>> THEN SignedZero(s) ELSE RoundLong(s, m, e, BNBitLen(m))

\* float(k) for an integer k
R(k) == IF k < 0 THEN Round(-1, BNFromInt(-k), 0) ELSE Round(1, BNFromInt(k), 0)

\* -x
FNeg(x) ==
    IF IsNaN(x) THEN NaN
    ELSE IF x = Zero THEN NegZero
    ELSE IF x = NegZero THEN Zero
    ELSE <<-x[1], x[2], x[3]>>

Min(i, j) == IF i < j THEN i ELSE j

\* The weight of the binary digit above the highest of a finite x # 0:
\* 2^(Top(x) - 1) <= |x| < 2^Top(x).
Top(x) == x[3] + BNBitLen(x[2])

\* -1, 0 or 1 as |x| < |y|, |x| = |y| or |x| > |y|, for finite x, y # 0.
CmpMagnitude(x, y) ==
    IF Top(x) < Top(y) THEN -1
    ELSE IF Top(x) > Top(y) THEN 1
    ELSE LET e == Min(x[3], y[3])
         IN  BNCmp(BNShl(x[2], x[3] - e), BNShl(y[2], y[3] - e))

\* -1, 0 or 1 as x < y, x = y or x > y, for x and y other than nan; 0.0 and
\* -0.0 are equal.
FCmp(x, y) ==
    IF x[1] # y[1] THEN (IF x[1] < y[1] THEN -1 ELSE 1)
    ELSE IF x[1] = 0 THEN 0
    ELSE IF IsInf(x) THEN (IF IsInf(y) THEN 0 ELSE x[1])
    ELSE IF IsInf(y) THEN -x[1]
    ELSE x[1] * CmpMagnitude(x, y)

\* x < y, x <= y, x == y: false when x or y is nan.
FLt(x, y) == x # NaN /\ y # NaN /\ FCmp(x, y) < 0
FLe(x, y) == x # NaN /\ y # NaN /\ FCmp(x, y) <= 0

\* min(x, y): y when y < x, else x (the first argument also when one is nan).
FMin(x, y) == IF FLt(y, x) THEN y ELSE x

\* x + y where x or y is a zero, inf or nan.
AddSpecial(x, y) ==
    IF IsNaN(x) \/ IsNaN(y) THEN NaN
    ELSE IF IsInf(x) THEN (IF IsInf(y) /\ y # x THEN NaN ELSE x)
    ELSE IF IsInf(y) THEN y
    ELSE IF x[1] # 0 THEN x
    ELSE IF y[1] # 0 THEN y
    ELSE IF x = NegZero /\ y = NegZero THEN NegZero ELSE Zero

\* x + y.  An addend more than Precision + 8 binary digits below the other
\* is less than a quarter of the other's lowest digit, also of the halved
\* digit below a power of 2: the sum rounds to the other.
FAdd(x, y) ==
    IF x[2] = <<>> \/ y[2] = <<>> THEN AddSpecial(x, y)
    ELSE IF Top(x) - Top(y) > Precision + 8 THEN x
    ELSE IF Top(y) - Top(x) > Precision + 8 THEN y
    ELSE LET e == Min(x[3], y[3])
             a == BNShl(x[2], x[3] - e)
             b == BNShl(y[2], y[3] - e)
             c == BNCmp(a, b)
         IN  IF x[1] = y[1] THEN Round(x[1], BNAdd(a, b), e)
             ELSE IF c = 0 THEN Zero
             ELSE IF c > 0 THEN Round(x[1], BNSub(a, b), e)
             ELSE Round(y[1], BNSub(b, a), e)

FSub(x, y) == FAdd(x, FNeg(y))

\* x * y where x or y is a zero, inf or nan.
MulSpecial(x, y) ==
    IF IsNaN(x) \/ IsNaN(y) THEN NaN
    ELSE IF IsInf(x) \/ IsInf(y)
    THEN (IF IsZero(x) \/ IsZero(y) THEN NaN
          ELSE SignedInf(Sign(x) * Sign(y)))
    ELSE SignedZero(Sign(x) * Sign(y))

FMul(x, y) ==
    IF x[2] = <<>> \/ y[2] = <<>> THEN MulSpecial(x, y)
    ELSE Round(x[1] * y[1], BNMul(x[2], y[2]), x[3] + y[3])

\* x / y where x is a zero, inf or nan or y is inf or nan.
DivSpecial(x, y) ==
    IF IsNaN(x) \/ IsNaN(y) THEN NaN
    ELSE IF IsInf(x)
    THEN (IF IsInf(y) THEN NaN ELSE SignedInf(Sign(x) * Sign(y)))
    ELSE SignedZero(Sign(x) * Sign(y))

\* x / y for y other than 0.0 and -0.0: the caller has checked y == 0, where
\* Python raises ZeroDivisionError whatever x is.  The quotient of the significands is
\* taken to 55 binary digits or more, with one more digit that says whether a
\* remainder is left, and then rounded.
FDiv(x, y) ==
    IF x[2] = <<>> \/ y[2] = <<>> THEN DivSpecial(x, y)
    ELSE IF y[2] = <<1>> THEN Round(x[1] * y[1], x[2], x[3] - y[3])
    ELSE LET sh == Precision + 3 + BNBitLen(y[2]) - BNBitLen(x[2])
             qr == BNDivMod(BNShl(x[2], sh), y[2])
             m == BNAdd(BNShl(qr[1], 1), IF qr[2] = <<>> THEN <<>> ELSE <<1>>)
         IN  Round(x[1] * y[1], m, x[3] - y[3] - sh - 1)

\* ------------------------------------------------------------------ inputs
Dates == 1..MaxDate
Capitals == {R(k) : k \in 0..MaxCapital}
Prices == {R(k) : k \in 0..MaxPrice}
TargetPercents == {FDiv(R(k), R(2)) : k \in -1..MaxTarget}
Quantities == {R(k) : k \in -1..MaxQty}
\* sell is called with a quantity >= 0: the engine passes -quantity for a
\* quantity < 0.
SellQuantities == {R(k) : k \in 0..MaxQty}

\* Order(symbol, target_percent)
Orders == [symbol : Symbols, target_percent : TargetPercents]
OrderLists == UNION {[1..k -> Orders] : k \in 0..MaxOrders}

\* A price mapping as the data provider returns it: symbols without a bar on
\* the date are absent from the mapping.
PriceMaps == UNION {[S -> Prices] : S \in SUBSET Symbols}

\* The ascending sequence of the dates in S (get_index_data sorts the index).
RECURSIVE SortedSeq(_)
SortedSeq(S) ==
    IF S = {} THEN <<>>
    ELSE LET m == CHOOSE x \in S : \A y \in S : x <= y
         IN  <<m>> \o SortedSeq(S \ {m})

Calendars == {SortedSeq(S) : S \in SUBSET Dates}

Restrict(f, S) == [s \in (DOMAIN f) \cap S |-> f[s]]

\* --------------------------------------------------------------- Portfolio
\* Position(symbol, quantity, avg_price); the mapping's key is the symbol.
\* _positions is a dict: it keeps its keys in the order of their insertion,
\* the order total_value and run add the position values in.  rank is the
\* place of the key in that order (1 for the oldest).
NewPosition == [quantity |-> Zero, avg_price |-> Zero, rank |-> 0]

\* Position.market_value
market_value(position, price) == FMul(position.quantity, price)

\* Portfolio.get_position: inserts a zero-quantity Position, as the last key,
\* when absent.
get_position(pos, symbol) ==
    IF symbol \in DOMAIN pos THEN pos
    ELSE [s \in (DOMAIN pos) \cup {symbol} |->
             IF s = symbol
             THEN [NewPosition EXCEPT !.rank = Cardinality(DOMAIN pos) + 1]
             ELSE pos[s]]

\* Portfolio.remove_position: the keys inserted after symbol move up one place.
remove_position(pos, symbol) ==
    IF symbol \notin DOMAIN pos THEN pos
    ELSE [s \in (DOMAIN pos) \ {symbol} |->
             IF pos[s].rank > pos[symbol].rank
             THEN [pos[s] EXCEPT !.rank = @ - 1]
             ELSE pos[s]]

\* The loop of total_value and of run's valuation from the i-th key on:
\* value += quantity * price for each key in insertion order, the keys absent
\* from lookup skipped.
RECURSIVE AddValues(_, _, _, _)
AddValues(value, pos, lookup, i) ==
    IF i > Cardinality(DOMAIN pos) THEN value
    ELSE LET s == CHOOSE x \in DOMAIN pos : pos[x].rank = i
         IN  AddValues(IF s \in DOMAIN lookup
                       THEN FAdd(value, market_value(pos[s], lookup[s]))
                       ELSE value,
                       pos, lookup, i + 1)

\* total_value counting the cash alone.
total_value_cash_only(pf, price_lookup) == pf.cash

\* Portfolio.total_value: symbols absent from price_lookup are skipped.
total_value(pf, price_lookup) == AddValues(pf.cash, pf.positions, price_lookup, 1)

\* sell that keeps the entry of a position sold down to zero.
sell_keep_empty(pf, symbol, quantity, price) ==
    LET pos1 == get_position(pf.positions, symbol)
        qty == FMin(quantity, pos1[symbol].quantity)
        proceeds == FMul(qty, price)
        left == FSub(pos1[symbol].quantity, qty)
    IN  [cash |-> FAdd(pf.cash, proceeds),
         positions |-> [pos1 EXCEPT ![symbol].quantity = left]]

\* sell with the proceeds taken from the requested quantity, not the clamped one.
sell_proceeds_unclamped(pf, symbol, quantity, price) ==
    LET pos1 == get_position(pf.positions, symbol)
        qty == FMin(quantity, pos1[symbol].quantity)
        left == FSub(pos1[symbol].quantity, qty)
        pos2 == IF IsZero(left)
                THEN remove_position(pos1, symbol)
                ELSE [pos1 EXCEPT ![symbol].quantity = left]
    IN  [cash |-> FAdd(pf.cash, FMul(quantity, price)), positions |-> pos2]

\* sell without the clamp to the held quantity.
sell_unclamped(pf, symbol, quantity, price) ==
    LET pos1 == get_position(pf.positions, symbol)
        left == FSub(pos1[symbol].quantity, quantity)
        pos2 == IF IsZero(left)
                THEN remove_position(pos1, symbol)
                ELSE [pos1 EXCEPT ![symbol].quantity = left]
    IN  [cash |-> FAdd(pf.cash, FMul(quantity, price)), positions |-> pos2]

\* Portfolio.sell: returns the portfolio after the call.
sell(pf, symbol, quantity, price) ==
    LET pos1 == get_position(pf.positions, symbol)
        qty == FMin(quantity, pos1[symbol].quantity)
        proceeds == FMul(qty, price)
        left == FSub(pos1[symbol].quantity, qty)
        pos2 == IF IsZero(left)
                THEN remove_position(pos1, symbol)
                ELSE [pos1 EXCEPT ![symbol].quantity = left]
    IN  [cash |-> FAdd(pf.cash, proceeds), positions |-> pos2]

\* buy that sets the average cost to the price of the latest purchase.
buy_avg_overwrite(pf, symbol, quantity, price) ==
    IF FLe(quantity, Zero) THEN [pf |-> pf, raised |-> "none"]
    ELSE LET cost == FMul(quantity, price) IN
         IF FLt(pf.cash, cost) THEN [pf |-> pf, raised |-> "ValueError"]
         ELSE LET pos1 == get_position(pf.positions, symbol)
                  newq == FAdd(pos1[symbol].quantity, quantity)
              IN  [pf |-> [cash |-> FSub(pf.cash, cost),
                           positions |-> [pos1 EXCEPT
                               ![symbol].quantity = newq,
                               ![symbol].avg_price = price]],
                   raised |-> "none"]

\* buy without the insufficient-cash check.
buy_unchecked(pf, symbol, quantity, price) ==
    IF FLe(quantity, Zero) THEN [pf |-> pf, raised |-> "none"]
    ELSE LET cost == FMul(quantity, price)
             pos1 == get_position(pf.positions, symbol)
             total_cost == FAdd(FMul(pos1[symbol].avg_price,
                                     pos1[symbol].quantity), cost)
             newq == FAdd(pos1[symbol].quantity, quantity)
         IN  [pf |-> [cash |-> FSub(pf.cash, cost),
                      positions |-> [pos1 EXCEPT
                          ![symbol].quantity = newq,
                          ![symbol].avg_price = FDiv(total_cost, newq)]],
              raised |-> "none"]

\* buy that looks the position up (get_position) before the cash check.
buy_lookup_first(pf, symbol, quantity, price) ==
    IF FLe(quantity, Zero) THEN [pf |-> pf, raised |-> "none"]
    ELSE LET cost == FMul(quantity, price)
             pos1 == get_position(pf.positions, symbol)
             total_cost == FAdd(FMul(pos1[symbol].avg_price,
                                     pos1[symbol].quantity), cost)
             newq == FAdd(pos1[symbol].quantity, quantity)
         IN  IF FLt(pf.cash, cost)
             THEN [pf |-> [cash |-> pf.cash, positions |-> pos1],
                   raised |-> "ValueError"]
             ELSE [pf |-> [cash |-> FSub(pf.cash, cost),
                           positions |-> [pos1 EXCEPT
                               ![symbol].quantity = newq,
                               ![symbol].avg_price = FDiv(total_cost, newq)]],
                   raised |-> "none"]

\* Portfolio.buy: returns [pf, raised]; raised is "none", "ValueError"
\* (insufficient cash) or "ZeroDivisionError".
buy(pf, symbol, quantity, price) ==
    IF FLe(quantity, Zero) THEN [pf |-> pf, raised |-> "none"]
    ELSE LET cost == FMul(quantity, price) IN
         IF FLt(pf.cash, cost) THEN [pf |-> pf, raised |-> "ValueError"]
         ELSE LET pos1 == get_position(pf.positions, symbol)
                  total_cost == FAdd(FMul(pos1[symbol].avg_price,
                                          pos1[symbol].quantity), cost)
                  newq == FAdd(pos1[symbol].quantity, quantity)
              IN  IF IsZero(newq)
                  THEN [pf |-> [cash |-> pf.cash, positions |->
                                  [pos1 EXCEPT ![symbol].quantity = newq]],
                        raised |-> "ZeroDivisionError"]
                  ELSE [pf |-> [cash |-> FSub(pf.cash, cost),
                                positions |-> [pos1 EXCEPT
                                    ![symbol].quantity = newq,
                                    ![symbol].avg_price = FDiv(total_cost, newq)]],
                        raised |-> "none"]

\* ------------------------------------------------------------------- state
VARIABLES
    pc,               \* position in Backtester.run / mode of the specification
    initial_capital,  \* Backtester.__init__ argument
    index_dates,      \* list(index_data.index)
    idx,              \* loop index of run (1-based)
    cash,             \* Portfolio.cash
    positions,        \* Portfolio._positions: symbol -> Position
    orders,           \* order_list of the current date
    oi,               \* position of the order loop in order_list (1-based)
    close_bars,       \* the provider's closing prices on the current date
    close_prices,     \* close_prices of the current date
    sizing_value,     \* the local total_value of _execute_orders
    pre_exec,         \* the portfolio when _execute_orders was entered
    outcomes,         \* the outcome of each order processed on the current date
    account_dates,    \* run's account_dates
    account_values,   \* run's account_values
    next_open_prices, \* run's next_open_prices, until the next decision step
    invoked,          \* the dates strategy.on_date has been called for
    fault,            \* the exception a collaborator raised: "none" or its type
    result,           \* what run returned: "none" or a BacktestResult
    error,            \* the exception that left run: "none" or its type
    last,             \* the latest Portfolio call or order and its outcome
    calls             \* number of direct Portfolio calls made

vars == <<pc, initial_capital, index_dates, idx, cash, positions, orders, oi,
          close_bars, close_prices, sizing_value, pre_exec, outcomes,
          account_dates, account_values, next_open_prices, invoked, fault,
          result, error, last, calls>>

Portfolio == [cash |-> cash, positions |-> positions]
NoPositions == [s \in {} |-> NewPosition]
NoPrices == [s \in {} |-> Zero]
NoCall == [op |-> "none", symbol |-> "", quantity |-> Zero, price |-> Zero,
           held |-> Zero, outcome |-> "none"]

\* The quantity of symbol held in the position mapping pos (0 when absent).
Held(pos, symbol) == IF symbol \in DOMAIN pos THEN pos[symbol].quantity ELSE Zero

\* Portfolio.__init__ and the locals of a run that has not started.
InitCommonWith(capitals) ==
    /\ initial_capital \in capitals
    /\ cash = initial_capital
    /\ positions = NoPositions
    /\ idx = 0
    /\ orders = <<>>
    /\ oi = 0
    /\ close_bars = NoPrices
    /\ close_prices = NoPrices
    /\ sizing_value = Zero
    /\ pre_exec = [cash |-> initial_capital, positions |-> NoPositions]
    /\ outcomes = <<>>
    /\ account_dates = <<>>
    /\ account_values = <<>>
    /\ next_open_prices = NoPrices
    /\ invoked = <<>>
    /\ fault = "none"
    /\ result = "none"
    /\ error = "none"
    /\ last = NoCall
    /\ calls = 0

InitCommon == InitCommonWith(Capitals)

\* ------------------------------------------------------------ Backtester.run
\* Backtester.__init__: a fresh Portfolio(initial_capital); the calendar is
\* whatever the data provider holds.
Init ==
    /\ InitCommon
    /\ pc = "start"
    /\ index_dates \in Calendars

EngineLocals == <<orders, oi, close_bars, close_prices, sizing_value, pre_exec,
                  outcomes>>
ExecLocals == <<oi, close_bars, close_prices, sizing_value, pre_exec, outcomes>>
Ledger == <<cash, positions>>
Series == <<account_dates, account_values, next_open_prices>>
Fixed == <<initial_capital, index_dates, calls, fault>>

\* The calendar length below which run raises; MinDatesOne is an off-by-one.
MinDatesOne == 2 - 1
MinDates == 2

\* run, up to the loop: the insufficient-data check.
Start ==
    /\ pc = "start"
    /\ IF Len(index_dates) < MinDates
       THEN /\ pc' = "failed"
            /\ error' = "ValueError"
            /\ idx' = idx
       ELSE /\ pc' = "decide"
            /\ error' = error
            /\ idx' = 1
    /\ UNCHANGED <<Ledger, EngineLocals, Series, invoked, result, last, Fixed>>

\* A loop that visits every calendar date, the last one included.
InLoopAll == idx <= Len(index_dates)

\* The loop of run visits index_dates[:-1].
InLoop == idx <= Len(index_dates) - 1

\* strategy.on_date(ctx) of a policy that only reads the portfolio (as
\* MomentumStrategy does) and returns a list of orders.
DecideWith(lists) ==
    /\ pc = "decide"
    /\ InLoop
    /\ \E ol \in lists : orders' = ol
    /\ invoked' = Append(invoked, index_dates[idx])
    /\ pc' = "execute"
    /\ next_open_prices' = NoPrices
    /\ UNCHANGED <<Ledger, idx, ExecLocals, account_dates, account_values,
                   result, error, last, Fixed>>

Decide == DecideWith(OrderLists)

\* The set of symbols of an order list.
OrderSymbols(ol) == {ol[i].symbol : i \in DOMAIN ol}

\* AkshareDataProvider.get_close_prices / get_open_prices: the bars' prices
\* for the asked symbols, without the symbols that have no bar on the date.
get_prices(bars, symbols) == Restrict(bars, symbols)

\* _execute_orders up to its loop: closing prices, the no-price guard and the
\* valuation of the portfolio at the closing prices.  maps is the set of price
\* mappings the provider may hold for the date.
ExecBeginWith(maps) ==
    /\ pc = "execute"
    /\ \E bars \in maps :
         LET symbols == OrderSymbols(orders)
             cp == get_prices(bars, symbols)
             all_symbols == (DOMAIN positions) \cup symbols
             valuation_prices == get_prices(bars, all_symbols)
         IN  /\ close_bars' = bars
             /\ close_prices' = cp
             /\ IF DOMAIN cp = {}
                THEN /\ pc' = "mark"
                     /\ UNCHANGED <<sizing_value, oi>>
                ELSE /\ pc' = "order"
                     /\ sizing_value' = total_value(Portfolio, valuation_prices)
                     /\ oi' = 1
    /\ pre_exec' = Portfolio
    /\ outcomes' = <<>>
    /\ UNCHANGED <<Ledger, idx, orders, Series, invoked, result, error, last, Fixed>>

ExecBegin == ExecBeginWith(PriceMaps)

\* What the loop body makes of the outcome b of its buy call: the ValueError
\* of an insufficient cash is swallowed (except ValueError: continue).
after_buy(b, quantity) ==
    [pf |-> b.pf,
     outcome |-> IF b.raised = "ValueError" THEN "rejected"
                 ELSE IF b.raised = "none" THEN "buy"
                 ELSE b.raised,
     quantity |-> quantity]

\* The end of the loop body: a buy for quantity > 0, a sell of -quantity for
\* quantity < 0, nothing for quantity = 0.
trade(pf, symbol, quantity, price) ==
    IF FLt(Zero, quantity)
    THEN after_buy(buy(pf, symbol, quantity, price), quantity)
    ELSE IF FLt(quantity, Zero)
    THEN [pf |-> sell(pf, symbol, FNeg(quantity), price),
          outcome |-> "sell", quantity |-> quantity]
    ELSE [pf |-> pf, outcome |-> "zero", quantity |-> quantity]

\* current_value of the loop body: the held quantity at the closing price,
\* 0.0 for a symbol without a position.
current_value(pf, symbol, price) ==
    IF symbol \in DOMAIN pf.positions
    THEN FMul(pf.positions[symbol].quantity, price)
    ELSE Zero

\* The loop body taking the symbol's current value for zero.
execute_order_ignoring_held(pf, order, cp, tv) ==
    IF order.symbol \notin DOMAIN cp
    THEN [pf |-> pf, outcome |-> "skip", quantity |-> Zero]
    ELSE IF IsZero(cp[order.symbol])
    THEN [pf |-> pf, outcome |-> "ZeroDivisionError", quantity |-> Zero]
    ELSE trade(pf, order.symbol,
               FDiv(FMul(tv, order.target_percent), cp[order.symbol]),
               cp[order.symbol])

\* The loop body sizing the target on the cash alone.
execute_order_cash_sized(pf, order, cp, tv) ==
    IF order.symbol \notin DOMAIN cp
    THEN [pf |-> pf, outcome |-> "skip", quantity |-> Zero]
    ELSE IF IsZero(cp[order.symbol])
    THEN [pf |-> pf, outcome |-> "ZeroDivisionError", quantity |-> Zero]
    ELSE trade(pf, order.symbol,
               FDiv(FSub(FMul(pf.cash, order.target_percent),
                         current_value(pf, order.symbol, cp[order.symbol])),
                    cp[order.symbol]),
               cp[order.symbol])

\* One iteration of the order loop of _execute_orders on portfolio pf:
\* [pf, outcome, quantity], outcome being "skip" (no closing price), "buy",
\* "rejected" (the buy raised ValueError, which the loop swallows), "sell",
\* "zero" (no trade) or "ZeroDivisionError" (value_diff / price at a closing
\* price of 0).  quantity = (total_value * target_percent - current_value)
\* / price.
execute_order(pf, order, cp, tv) ==
    IF order.symbol \notin DOMAIN cp
    THEN [pf |-> pf, outcome |-> "skip", quantity |-> Zero]
    ELSE IF IsZero(cp[order.symbol])
    THEN [pf |-> pf, outcome |-> "ZeroDivisionError", quantity |-> Zero]
    ELSE trade(pf, order.symbol,
               FDiv(FSub(FMul(tv, order.target_percent),
                         current_value(pf, order.symbol, cp[order.symbol])),
                    cp[order.symbol]),
               cp[order.symbol])

\* The order loop leaving after the first order that traded.
after_order_first_trade_ends(outcome, i, n) ==
    IF outcome = "ZeroDivisionError" THEN "failed"
    ELSE IF outcome \in {"buy", "sell"} THEN "mark"
    ELSE IF i < n THEN "order" ELSE "mark"

\* The order loop leaving (break) at a rejected buy.
after_order_break(outcome, i, n) ==
    IF outcome = "ZeroDivisionError" THEN "failed"
    ELSE IF outcome = "rejected" THEN "mark"
    ELSE IF i < n THEN "order" ELSE "mark"

\* The order loop leaving (return) at an order without a closing price.
after_order_skip_ends(outcome, i, n) ==
    IF outcome = "ZeroDivisionError" THEN "failed"
    ELSE IF outcome = "skip" THEN "mark"
    ELSE IF i < n THEN "order" ELSE "mark"

\* Where the order loop goes after an iteration with the given outcome.
after_order(outcome, i, n) ==
    IF outcome = "ZeroDivisionError" THEN "failed"
    ELSE IF i < n THEN "order" ELSE "mark"

\* The state after the iteration of the order loop whose outcome is r.
Executed(r) ==
    /\ cash' = r.pf.cash
    /\ positions' = r.pf.positions
    /\ last' = [op |-> "order", symbol |-> orders[oi].symbol,
                quantity |-> r.quantity,
                price |-> IF orders[oi].symbol \in DOMAIN close_prices
                          THEN close_prices[orders[oi].symbol] ELSE Zero,
                held |-> Held(positions, orders[oi].symbol),
                outcome |-> r.outcome]
    /\ outcomes' = Append(outcomes, r.outcome)
    /\ pc' = after_order(r.outcome, oi, Len(orders))
    /\ error' = IF r.outcome = "ZeroDivisionError" THEN r.outcome ELSE error

\* One iteration of the order loop of _execute_orders.
ExecOrder ==
    /\ pc = "order"
    /\ oi <= Len(orders)
    /\ Executed(execute_order(Portfolio, orders[oi], close_prices, sizing_value))
    /\ oi' = oi + 1
    /\ UNCHANGED <<idx, orders, close_bars, close_prices, sizing_value, pre_exec,
                   Series, invoked, result, Fixed>>

\* The current date taken for the next one.
current_date_of(dates, i) == dates[i]

\* run's next_date for the loop index i (1-based): index_dates[idx + 1].
next_date_of(dates, i) == dates[i + 1]

\* The account value with the unpriced positions carried at their average cost.
portfolio_value_at_cost(pf, open_prices) ==
    AddValues(pf.cash, pf.positions,
              [s \in DOMAIN pf.positions |->
                  IF s \in DOMAIN open_prices THEN open_prices[s]
                  ELSE pf.positions[s].avg_price],
              1)

\* The account value of run's mark-to-market: cash plus the held positions
\* that have an opening price on the next date.
portfolio_value(pf, open_prices) == AddValues(pf.cash, pf.positions, open_prices, 1)

\* run: the valuation at the next date's opening prices and the append.  The
\* locals of the finished _execute_orders call are gone by now.  maps is the
\* set of price mappings the provider may hold for the next date.
MarkToMarketWith(maps) ==
    /\ pc = "mark"
    /\ \E bars \in maps :
         LET next_date == next_date_of(index_dates, idx)
             opens == get_prices(bars, DOMAIN positions)
         IN  /\ next_open_prices' = opens
             /\ account_dates' = Append(account_dates, next_date)
             /\ account_values' =
                    Append(account_values, portfolio_value(Portfolio, opens))
    /\ idx' = idx + 1
    /\ pc' = "decide"
    /\ orders' = <<>>
    /\ oi' = 0
    /\ close_bars' = NoPrices
    /\ close_prices' = NoPrices
    /\ sizing_value' = Zero
    /\ pre_exec' = Portfolio
    /\ outcomes' = <<>>
    /\ last' = NoCall
    /\ UNCHANGED <<Ledger, invoked, result, error, Fixed>>

MarkToMarket == MarkToMarketWith(PriceMaps)

\* run: the loop is over, the result is returned.
Return ==
    /\ pc = "decide"
    /\ ~InLoop
    /\ result' = [dates |-> account_dates, values |-> account_values]
    /\ pc' = "done"
    /\ UNCHANGED <<Ledger, idx, EngineLocals, Series, invoked, error, last, Fixed>>

\* _execute_orders as a function: the loop over ol from its i-th order.
RECURSIVE run_orders(_, _, _, _, _)
RECURSIVE run_orders_after(_, _, _, _, _)
run_orders(pf, ol, i, cp, tv) ==
    IF i > Len(ol) THEN pf
    ELSE run_orders_after(execute_order(pf, ol[i], cp, tv), ol, i, cp, tv)

\* The loop after its i-th iteration, whose outcome is r: an exception ends it.
run_orders_after(r, ol, i, cp, tv) ==
    IF r.outcome = "ZeroDivisionError" THEN r.pf
    ELSE run_orders(r.pf, ol, i + 1, cp, tv)

\* _execute_orders as a function of the portfolio, the order list and the
\* provider's closing prices of the date: the portfolio it leaves.
execute_orders(pf, ol, bars) ==
    LET symbols == OrderSymbols(ol)
        cp == get_prices(bars, symbols)
        all_symbols == (DOMAIN pf.positions) \cup symbols
    IN  IF DOMAIN cp = {} THEN pf
        ELSE run_orders(pf, ol, 1, cp, total_value(pf, get_prices(bars, all_symbols)))

\* ol without its k-th order.
WithoutIndex(ol, k) == [i \in 1..(Len(ol) - 1) |-> IF i < k THEN ol[i] ELSE ol[i + 1]]

Next == Start \/ Decide \/ ExecBegin \/ ExecOrder \/ MarkToMarket \/ Return

Spec == Init /\ [][Next]_vars

\* ------------------------------------------------ prices that round quotients
\* The engine on prices that are not powers of two: quantity = value_diff /
\* price is then a rounded quotient, and quantity * price a rounded product.
UnevenPrices == {R(3), R(49)}
UnevenPriceMaps == UNION {[S -> UnevenPrices] : S \in SUBSET Symbols}

ExecBeginUneven == ExecBeginWith(UnevenPriceMaps)
MarkToMarketUneven == MarkToMarketWith(UnevenPriceMaps)

NextUneven ==
    Start \/ Decide \/ ExecBeginUneven \/ ExecOrder \/ MarkToMarketUneven \/ Return

SpecUneven == Init /\ [][NextUneven]_vars

\* Runs that leave the range of the floats: a capital of 2^1023 (the largest
\* power of two a float holds) or of 2^-1060 (in the subnormal range), prices
\* of 1, 2^30 and inf (a bar's fields are only required to be >= 0), up to
\* MaxOrders + 1 orders a date with targets of -1/2 and 1/2.  Values overflow
\* to inf, inf - inf and 0 x inf give nan, small quotients underflow to 0.
ExtremeCapitals == {<<1, <<1>>, MinExp + 14>>, <<1, <<1>>, MaxExp - 1>>}
ExtremePrices == {R(1), <<1, <<1>>, 30>>, Inf}
ExtremePriceMaps == UNION {[S -> ExtremePrices] : S \in SUBSET Symbols}
ExtremeOrderLists ==
    UNION {[1..k -> [symbol : Symbols,
                     target_percent : {FDiv(R(-1), R(2)), FDiv(R(1), R(2))}]] :
              k \in 0..(MaxOrders + 1)}

InitExtreme ==
    /\ InitCommonWith(ExtremeCapitals)
    /\ pc = "start"
    /\ index_dates \in Calendars

DecideExtreme == DecideWith(ExtremeOrderLists)
ExecBeginExtreme == ExecBeginWith(ExtremePriceMaps)
MarkToMarketExtreme == MarkToMarketWith(ExtremePriceMaps)

NextExtreme ==
    \/ Start \/ DecideExtreme \/ ExecBeginExtreme \/ ExecOrder
    \/ MarkToMarketExtreme \/ Return

SpecExtreme == InitExtreme /\ [][NextExtreme]_vars

\* ------------------------------------------- a policy with the live Portfolio
\* run hands the policy StrategyContext(portfolio=self.portfolio): the
\* Portfolio object itself.  What on_date can do with it before it returns
\* its orders: call its methods (get_position, remove_position, buy, sell)
\* and assign its attributes and those of its Position objects (here cash
\* and quantity), any number of times.
MaxPolicyCalls == 2     \* on_date makes at most MaxPolicyCalls calls or assignments

PolicyQuantities == {R(-2), R(1)}
PolicyPrices == {R(1)}
PolicyValues == {R(-1)}

\* A call or an assignment of the policy: op and its arguments; value is the
\* value assigned by "set_cash" (portfolio.cash = value), "set_quantity" and
\* "set_avg_price" (portfolio.get_position(symbol).quantity = value,
\* ....avg_price = value); caught says that the policy makes the call inside
\* a try statement that catches what the call raises (only buy raises).
PolicyCalls ==
    [op : {"get_position", "remove_position"}, symbol : Symbols,
     quantity : {Zero}, price : {Zero}, value : {Zero}, caught : {FALSE}]
    \cup [op : {"buy"}, symbol : Symbols,
          quantity : PolicyQuantities, price : PolicyPrices, value : {Zero},
          caught : BOOLEAN]
    \cup [op : {"sell"}, symbol : Symbols,
          quantity : PolicyQuantities, price : PolicyPrices, value : {Zero},
          caught : {FALSE}]
    \cup [op : {"set_cash"}, symbol : {""},
          quantity : {Zero}, price : {Zero}, value : PolicyValues,
          caught : {FALSE}]
    \cup [op : {"set_quantity", "set_avg_price"}, symbol : Symbols,
          quantity : {Zero}, price : {Zero}, value : PolicyValues,
          caught : {FALSE}]

\* The order lists and the price mappings of the runs with such a policy: at
\* most one order per date, with a target of 0 or 1/2, every present price 1.
LiveOrderLists ==
    {ol \in OrderLists :
        /\ Len(ol) <= 1
        /\ \A i \in 1..Len(ol) : ol[i].target_percent \in {Zero, FDiv(R(1), R(2))}}
LivePriceMaps == UNION {[S -> {R(1)}] : S \in SUBSET Symbols}

PolicyCallSeqs == UNION {[1..k -> PolicyCalls] : k \in 0..MaxPolicyCalls}

\* The portfolio after one call or assignment of the policy, and the exception
\* the call raised: [pf, raised].
policy_effect(pf, call) ==
    CASE call.op = "get_position" ->
            [pf |-> [pf EXCEPT !.positions = get_position(pf.positions, call.symbol)],
             raised |-> "none"]
      [] call.op = "remove_position" ->
            [pf |-> [pf EXCEPT !.positions = remove_position(pf.positions, call.symbol)],
             raised |-> "none"]
      [] call.op = "buy" -> buy(pf, call.symbol, call.quantity, call.price)
      [] call.op = "sell" ->
            [pf |-> sell(pf, call.symbol, call.quantity, call.price), raised |-> "none"]
      [] call.op = "set_cash" ->
            [pf |-> [pf EXCEPT !.cash = call.value], raised |-> "none"]
      [] call.op = "set_quantity" ->
            [pf |-> [pf EXCEPT !.positions =
                        [get_position(pf.positions, call.symbol) EXCEPT
                            ![call.symbol].quantity = call.value]],
             raised |-> "none"]
      [] call.op = "set_avg_price" ->
            [pf |-> [pf EXCEPT !.positions =
                        [get_position(pf.positions, call.symbol) EXCEPT
                            ![call.symbol].avg_price = call.value]],
             raised |-> "none"]
      [] OTHER -> [pf |-> pf, raised |-> "none"]

\* The calls of cs from the i-th on, one after the other.  An exception the
\* policy does not catch ends on_date; after one it catches, on_date goes on
\* from the portfolio as the raising call left it (buy raises ValueError
\* before it changes anything, ZeroDivisionError after it has inserted the
\* position and added the quantity).
RECURSIVE policy_effects(_, _, _)
RECURSIVE policy_effects_after(_, _, _)
policy_effects(pf, cs, i) ==
    IF i > Len(cs) THEN [pf |-> pf, raised |-> "none"]
    ELSE policy_effects_after(policy_effect(pf, cs[i]), cs, i)

\* on_date after its i-th call, whose outcome is r.
policy_effects_after(r, cs, i) ==
    IF r.raised # "none" /\ ~cs[i].caught THEN r
    ELSE policy_effects(r.pf, cs, i + 1)

\* The state after an on_date whose calls had the outcome r.
Decided(r) ==
    /\ cash' = r.pf.cash
    /\ positions' = r.pf.positions
    /\ IF r.raised = "none"
       THEN /\ \E ol \in LiveOrderLists : orders' = ol
            /\ pc' = "execute"
            /\ error' = error
       ELSE /\ orders' = orders
            /\ pc' = "failed"
            /\ error' = r.raised

\* strategy.on_date(ctx) of a policy that works on the live Portfolio: it
\* returns its orders, or the exception of one of its calls leaves on_date
\* and, uncaught by run, the run.
DecideLive ==
    /\ pc = "decide"
    /\ InLoop
    /\ invoked' = Append(invoked, index_dates[idx])
    /\ next_open_prices' = NoPrices
    /\ \E cs \in PolicyCallSeqs : Decided(policy_effects(Portfolio, cs, 1))
    /\ UNCHANGED <<idx, ExecLocals, account_dates, account_values,
                   result, last, Fixed>>

ExecBeginLive == ExecBeginWith(LivePriceMaps)
MarkToMarketLive == MarkToMarketWith(LivePriceMaps)

NextLive ==
    Start \/ DecideLive \/ ExecBeginLive \/ ExecOrder \/ MarkToMarketLive \/ Return

SpecLive == Init /\ [][NextLive]_vars

\* ------------------------------------------------- direct Portfolio calls
\* A Portfolio(initial_capital) driven by a sequence of buy and sell calls:
\* any symbol and price, buy with any quantity, sell with a quantity >= 0.
InitPortfolio ==
    /\ InitCommon
    /\ pc = "api"
    /\ index_dates = <<>>

ApiFrame == <<idx, EngineLocals, Series, result, error, initial_capital,
              index_dates, invoked, fault>>

\* The state after the call buy(s, q, p) whose outcome is b.
Bought(b, s, q, p) ==
    /\ cash' = b.pf.cash
    /\ positions' = b.pf.positions
    /\ last' = [op |-> "buy", symbol |-> s, quantity |-> q, price |-> p,
                held |-> Held(positions, s),
                outcome |-> IF b.raised # "none" THEN b.raised
                            ELSE IF FLe(q, Zero) THEN "noop" ELSE "bought"]

\* The state after the call sell(s, q, p) that left the portfolio pf.
Sold(pf, s, q, p) ==
    /\ cash' = pf.cash
    /\ positions' = pf.positions
    /\ last' = [op |-> "sell", symbol |-> s, quantity |-> q, price |-> p,
                held |-> Held(positions, s),
                outcome |-> "sold"]

CallBuyWith(quantities, prices) ==
    /\ pc = "api"
    /\ calls < MaxCalls
    /\ \E s \in Symbols, q \in quantities, p \in prices :
         Bought(buy(Portfolio, s, q, p), s, q, p)
    /\ calls' = calls + 1
    /\ UNCHANGED <<pc, ApiFrame>>

CallBuy == CallBuyWith(Quantities, Prices)

CallSellWith(quantities, prices) ==
    /\ pc = "api"
    /\ calls < MaxCalls
    /\ \E s \in Symbols, q \in quantities, p \in prices :
         Sold(sell(Portfolio, s, q, p), s, q, p)
    /\ calls' = calls + 1
    /\ UNCHANGED <<pc, ApiFrame>>

CallSell == CallSellWith(SellQuantities, Prices)

NextPortfolio == CallBuy \/ CallSell

SpecPortfolio == InitPortfolio /\ [][NextPortfolio]_vars

\* The same calls with quantities in tenths (0.1 is not a binary fraction)
\* and prices that are not powers of two.
TenthQuantities == {FDiv(R(k), R(10)) : k \in 1..(MaxQty + 1)}
TenthPrices == UnevenPrices \cup {R(1)}

CallBuyTenths == CallBuyWith(TenthQuantities, TenthPrices)
CallSellTenths == CallSellWith(TenthQuantities, TenthPrices)

NextTenths == CallBuyTenths \/ CallSellTenths

SpecTenths == InitPortfolio /\ [][NextTenths]_vars

\* Portfolio.sell called with any quantity argument: sell has no check of the
\* sign of its quantity.
CallSellAny ==
    /\ pc = "api"
    /\ calls < MaxCalls
    /\ \E s \in Symbols, q \in Quantities, p \in Prices :
         Sold(sell(Portfolio, s, q, p), s, q, p)
    /\ calls' = calls + 1
    /\ UNCHANGED <<pc, ApiFrame>>

NextSellAny == CallBuy \/ CallSellAny

SpecSellAny == InitPortfolio /\ [][NextSellAny]_vars

\* ------------------------------------------------ faults of the collaborators
\* The exception types a collaborator raises: the provider's ValueError
\* (no data for a symbol, no date column) and any other error.
FaultKinds == {"ValueError", "RuntimeError"}

\* A try block around the whole of the engine's work, catching ValueError.
handles_value_error_anywhere(at, kind) == kind = "ValueError"

\* Whether the engine catches an exception of type kind raised by the call at:
\* the only handler is the except ValueError around portfolio.buy.
handles(at, kind) == at = "buy" /\ kind = "ValueError"

\* The call of a collaborator run is at.
call_at ==
    CASE pc = "start" -> "get_index_data"
      [] pc = "decide" -> "on_date"
      [] pc = "execute" -> "get_close_prices"
      [] pc = "mark" -> "get_open_prices"
      [] OTHER -> "none"

\* What run does with an exception of type kind raised by the call it is at:
\* an exception no handler catches leaves run, which returns nothing.
raise_fault(kind) ==
    /\ fault' = kind
    /\ IF handles(call_at, kind)
       THEN UNCHANGED <<pc, error>>
       ELSE /\ pc' = "failed"
            /\ error' = kind
    /\ UNCHANGED <<Ledger, idx, EngineLocals, Series, result, last,
                   initial_capital, index_dates, calls>>

\* strategy.on_date raises.
PolicyFault ==
    /\ pc = "decide"
    /\ InLoop
    /\ invoked' = Append(invoked, index_dates[idx])
    /\ \E kind \in FaultKinds : raise_fault(kind)

\* The data provider raises in get_index_data, get_close_prices or
\* get_open_prices.
ProviderFault ==
    /\ pc \in {"start", "execute", "mark"}
    /\ invoked' = invoked
    /\ \E kind \in FaultKinds : raise_fault(kind)

NextFaults == Next \/ PolicyFault \/ ProviderFault

SpecFaults == Init /\ [][NextFaults]_vars

\* ====================================================================== claims
PortfolioNext == [cash |-> cash', positions |-> positions']

\* The average cost of symbol in the position mapping pos (0 when unheld).
AvgCost(pos, symbol) == IF symbol \in DOMAIN pos THEN pos[symbol].avg_price ELSE Zero

\* Every price of the specifications.
ClaimPrices == Prices \cup TenthPrices

\* 2^-48, sixteen units in the last place of a float: the bound, relative to
\* the value at stake, on what the roundings of the few operations between the
\* two sides of an equation add up to.
Tolerance == <<1, <<1>>, -48>>

FAbs(x) == IF x[1] = 0 THEN (IF IsNaN(x) THEN NaN ELSE Zero) ELSE <<1, x[2], x[3]>>

\* x and y differ by at most Tolerance x |scale|.  (The quantifier names the
\* values of x and y, so that they are computed once.)
Near(x, y, scale) ==
    \A a \in {x}, b \in {y} :
        FLe(FAbs(FSub(a, b)), FMul(Tolerance, FAbs(scale)))

\* x is 0 or a normal float: finite, and of a magnitude of at least 2^-1022,
\* so that it carries Precision digits.
InRange(x) == IsZero(x) \/ (x[2] # <<>> /\ Top(x) >= MinExp + Precision)

\* The product x * y has neither overflowed nor underflowed: it is 0 or a
\* normal float, and 0 only when x or y is.
ProductInRange(x, y) ==
    \A z \in {FMul(x, y)} :
        /\ InRange(z)
        /\ IsZero(z) => (IsZero(x) \/ IsZero(y))

\* The quotient x / y, y not 0, has neither overflowed nor underflowed.
QuotientInRange(x, y) ==
    \A z \in {FDiv(x, y)} :
        /\ InRange(z)
        /\ IsZero(z) => IsZero(x)

\* No value of the portfolio pf, priced at prices, has overflowed or
\* underflowed: cash, the quantities, the average costs, the cost and the
\* value of every position and the total value.
LedgerInRange(pf, prices) ==
    /\ InRange(pf.cash)
    /\ \A v \in {total_value(pf, prices)} : InRange(v)
    /\ \A s \in DOMAIN pf.positions :
         /\ InRange(pf.positions[s].quantity)
         /\ InRange(pf.positions[s].avg_price)
         /\ ProductInRange(pf.positions[s].avg_price, pf.positions[s].quantity)
         /\ s \in DOMAIN prices
                => ProductInRange(pf.positions[s].quantity, prices[s])

\* C1: in every state of a run started with initial capital >= 0, whatever the
\* calendar, the orders and the present/missing prices, cash >= 0.
C1_NoNegativeCash == FLe(Zero, cash)

\* C1, with the overflow of the floats: in every state of such a run cash is
\* never negative; it is >= 0 or, after the proceeds of a sell have overflowed
\* to inf and a buy has cost inf, nan.
C1_CashNeverNegative == FLe(Zero, cash) \/ IsNaN(cash)

\* A buy of the engine at a cost of inf, paid from a cash of inf: cash is nan.
C1_Witness ==
    /\ last.op = "order"
    /\ last.outcome = "buy"
    /\ IsNaN(cash)
    /\ FLt(Zero, initial_capital)

C3_BuyAtomicity ==
    [][(/\ calls' = calls + 1
        /\ last'.op = "buy"
        /\ FLt(cash, FMul(last'.quantity, last'.price)))
       => /\ last'.outcome = "ValueError"
          /\ cash' = cash
          /\ positions' = positions]_vars

\* A rejected buy of an unheld symbol while another symbol is held.
C3_Witness ==
    /\ last.op = "buy"
    /\ last.outcome = "ValueError"
    /\ last.symbol \notin DOMAIN positions
    /\ DOMAIN positions # {}

\* C4: a sell of q > h, h the held quantity (0 when unheld), adds exactly
\* h x price to cash and leaves the symbol absent from the mapping; no held
\* quantity is ever negative.
C4_SellClamp ==
    /\ [][(/\ calls' = calls + 1
           /\ last'.op = "sell"
           /\ FLt(Held(positions, last'.symbol), last'.quantity))
          => /\ cash' = FAdd(cash, FMul(Held(positions, last'.symbol), last'.price))
             /\ last'.symbol \notin DOMAIN positions']_vars
    /\ [](\A s \in DOMAIN positions : ~FLt(positions[s].quantity, Zero))

\* A sell of more than the positive quantity held, at a positive price.
C4_Witness ==
    /\ last.op = "sell"
    /\ FLt(Zero, last.held)
    /\ FLt(last.held, last.quantity)
    /\ FLt(Zero, last.price)
    /\ last.symbol \notin DOMAIN positions

\* C5: the result run returns for a calendar of n >= 2 dates has n-1 dates and
\* n-1 values, its i-th entry dated with the calendar's (i+1)-th date, and the
\* first calendar date is absent.
C5_CalendarOutput ==
    pc = "done" =>
        LET n == Len(index_dates)
        IN  /\ n >= 2
            /\ Len(result.dates) = n - 1
            /\ Len(result.values) = n - 1
            /\ \A i \in 1..(n - 1) :
                 /\ result.dates[i] = index_dates[i + 1]
                 /\ result.dates[i] # index_dates[1]

\* A run over a calendar of three dates has returned.
C5_Witness ==
    /\ pc = "done"
    /\ Len(index_dates) >= 3

\* C6: the decision step leaves cash and the position mapping as they were,
\* for any policy.
C6_DecisionKeepsLedger ==
    [][(pc = "decide" /\ pc' = "execute")
       => (cash' = cash /\ positions' = positions)]_vars

\* C7: with fewer than 2 calendar dates run raises before the loop: the policy
\* is never invoked, cash and positions keep their initial values and no
\* result, whole or partial, exists.
C7_InsufficientData ==
    Len(index_dates) < 2 =>
        /\ pc \in {"start", "failed"}
        /\ pc = "failed" => error = "ValueError"
        /\ cash = initial_capital
        /\ positions = NoPositions
        /\ orders = <<>>
        /\ account_dates = <<>>
        /\ account_values = <<>>
        /\ result = "none"

\* run has failed on a calendar of one date.
C7_Witness ==
    /\ pc = "failed"
    /\ error = "ValueError"
    /\ Len(index_dates) = 1

\* C8: with at least 2 calendar dates, present prices >= 0 and possibly
\* missing prices, no error leaves run.
C8_RunNeverFails ==
    Len(index_dates) >= 2 => (pc # "failed" /\ error = "none")

\* C9: a rejected buy leaves the portfolio as it was before that order, and
\* the portfolio left by the execution step is the one the step leaves for the
\* list without the rejected order.
C9_BestEffort ==
    /\ [][(pc = "order" /\ oi' = oi + 1 /\ last'.outcome = "rejected")
          => (cash' = cash /\ positions' = positions)]_vars
    /\ [](pc = "mark" =>
            \A k \in DOMAIN outcomes :
                outcomes[k] = "rejected" =>
                    Portfolio = execute_orders(pre_exec, WithoutIndex(orders, k),
                                               close_bars))

\* A rejected buy followed, on the same date, by an order that traded.
C9_Witness ==
    /\ pc = "mark"
    /\ \E k \in DOMAIN outcomes :
         /\ outcomes[k] = "rejected"
         /\ \E j \in DOMAIN outcomes : j > k /\ outcomes[j] \in {"buy", "sell"}

\* C10: an order whose symbol has no closing price changes neither cash nor
\* positions and the loop goes on to the next order; the orders of priced
\* symbols are all processed; when no ordered symbol has a closing price the
\* execution step leaves the portfolio as it found it.
C10_MissingCloseNeverTrades ==
    /\ [][(pc = "order" /\ oi' = oi + 1 /\ orders[oi].symbol \notin DOMAIN close_bars)
          => /\ cash' = cash
             /\ positions' = positions
             /\ pc' = IF oi < Len(orders) THEN "order" ELSE "mark"]_vars
    /\ [][pc = "execute" => (cash' = cash /\ positions' = positions)]_vars
    /\ [](pc = "mark" =>
            IF OrderSymbols(orders) \cap DOMAIN close_bars = {}
            THEN Portfolio = pre_exec /\ outcomes = <<>>
            ELSE /\ Len(outcomes) = Len(orders)
                 /\ \A k \in DOMAIN orders :
                      outcomes[k] = "skip" <=> orders[k].symbol \notin DOMAIN close_bars)

\* An order without a closing price was skipped and a later order of the same
\* date bought.
C10_Witness ==
    /\ pc = "mark"
    /\ \E k \in DOMAIN outcomes :
         /\ outcomes[k] = "skip"
         /\ \E j \in DOMAIN outcomes : j > k /\ outcomes[j] = "buy"

\* The held symbols in the order the position mapping lists them.
RECURSIVE HeldInOrder(_, _)
HeldInOrder(pos, i) ==
    IF i > Cardinality(DOMAIN pos) THEN <<>>
    ELSE <<CHOOSE s \in DOMAIN pos : pos[s].rank = i>> \o HeldInOrder(pos, i + 1)

\* amount plus quantity x price of the symbols of the sequence syms that have
\* a price, one after the other; a symbol without a price is passed over and
\* leaves the amount as it is.
RECURSIVE PricedValue(_, _, _, _)
PricedValue(amount, pos, prices, syms) ==
    IF syms = <<>> THEN amount
    ELSE IF Head(syms) \in DOMAIN prices
    THEN PricedValue(FAdd(amount, FMul(pos[Head(syms)].quantity,
                                       prices[Head(syms)])),
                     pos, prices, Tail(syms))
    ELSE PricedValue(amount, pos, prices, Tail(syms))

\* C11: the value recorded for the next date is the post-execution cash plus
\* the sum of quantity x opening price over the held symbols that have an
\* opening price on that date (an unpriced held symbol is passed over), it is
\* dated with the next calendar date, and the mark-to-market step changes
\* neither cash nor any position.
C11_MarkToMarket ==
    [][pc = "mark"
       => /\ cash' = cash
          /\ positions' = positions
          /\ DOMAIN next_open_prices' \subseteq DOMAIN positions
          /\ Len(account_values') = Len(account_values) + 1
          /\ Len(account_dates') = Len(account_values')
          /\ account_dates'[Len(account_dates')] = index_dates[idx + 1]
          /\ account_values'[Len(account_values')] =
                 PricedValue(cash, positions, next_open_prices',
                             HeldInOrder(positions, 1))]_vars

\* A value was recorded while one held symbol had no opening price and another
\* had a positive one; the unpriced position is still held.
C11_Witness ==
    /\ pc = "decide"
    /\ Len(account_values) >= 1
    /\ \E s \in DOMAIN positions :
         /\ s \notin DOMAIN next_open_prices
         /\ FLt(Zero, positions[s].avg_price)
    /\ \E s \in DOMAIN next_open_prices : FLt(Zero, next_open_prices[s])
    /\ account_values[Len(account_values)] =
           PricedValue(cash, positions, next_open_prices, HeldInOrder(positions, 1))

\* The scenario of the specification: capital 1,000,000, all cash, one order
\* A at 0.5, close 100, next open 110.
ScenarioStart == [cash |-> R(1000000), positions |-> NoPositions]
ScenarioOrders == <<[symbol |-> "A", target_percent |-> FDiv(R(1), R(2))]>>
ScenarioClose == [s \in {"A"} |-> R(100)]
ScenarioOpen == [s \in {"A"} |-> R(110)]

\* No value of the order being executed has overflowed or underflowed: the
\* total value of the date, the order's target value, quantity and cost and
\* the values of the portfolio before and after it.
OrderInRange ==
    /\ InRange(sizing_value)
    /\ ProductInRange(sizing_value, orders[oi].target_percent)
    /\ LedgerInRange(Portfolio, close_prices)
    /\ LedgerInRange(PortfolioNext, close_prices)
    /\ (/\ orders[oi].symbol \in DOMAIN close_prices
        /\ ~IsZero(close_prices[orders[oi].symbol]))
       => LET s == orders[oi].symbol
              t == orders[oi].target_percent
              p == close_prices[s]
          IN  \A diff \in {FSub(FMul(sizing_value, t),
                                 current_value(Portfolio, s, p))} :
                  /\ InRange(diff)
                  /\ QuotientInRange(diff, p)
                  /\ \A q \in {FDiv(diff, p)} : ProductInRange(q, p)

\* C12: an order (s, t >= 0) with closing price p > 0 that is executed without
\* an insufficient-funds rejection leaves held_quantity(s) x p = total_value x t,
\* total_value being the value the engine computed for the date, and changes
\* cash by the negative of the change in s's value at p; in the scenario this
\* gives 5000 shares, cash 500,000 and a recorded value of 1,050,000.
C12_TargetSizing ==
    /\ [][(/\ pc = "order"
           /\ oi' = oi + 1
           /\ orders[oi].symbol \in DOMAIN close_prices
           /\ FLt(Zero, close_prices[orders[oi].symbol])
           /\ FLe(Zero, orders[oi].target_percent)
           /\ last'.outcome # "rejected")
          => LET s == orders[oi].symbol
                 p == close_prices[s]
                 before == current_value(Portfolio, s, p)
                 after == current_value(PortfolioNext, s, p)
             IN  /\ after = FMul(sizing_value, orders[oi].target_percent)
                 /\ FSub(cash', cash) = FNeg(FSub(after, before))]_vars
    /\ LET pf == execute_orders(ScenarioStart, ScenarioOrders, ScenarioClose)
       IN  /\ pf.cash = R(500000)
           /\ DOMAIN pf.positions = {"A"}
           /\ pf.positions["A"].quantity = R(5000)
           /\ portfolio_value(pf, get_prices(ScenarioOpen, DOMAIN pf.positions))
                  = R(1050000)

\* C12, up to rounding: such an order leaves held_quantity(s) x p within
\* 2^-48 x total_value of total_value x t, and changes cash by the negative of
\* the change in s's value at p, within 2^-48 x total_value, as long as no
\* value has overflowed or underflowed; the scenario's numbers are exact.
C12_TargetSizingRounded ==
    /\ [][(/\ pc = "order"
           /\ oi' = oi + 1
           /\ orders[oi].symbol \in DOMAIN close_prices
           /\ FLt(Zero, close_prices[orders[oi].symbol])
           /\ FLe(Zero, orders[oi].target_percent)
           /\ last'.outcome # "rejected"
           /\ OrderInRange)
          => LET s == orders[oi].symbol
                 p == close_prices[s]
                 before == current_value(Portfolio, s, p)
                 after == current_value(PortfolioNext, s, p)
             IN  /\ Near(after, FMul(sizing_value, orders[oi].target_percent),
                         sizing_value)
                 /\ \A change \in {FSub(after, before)} :
                        Near(FSub(cash', cash), FNeg(change), sizing_value)]_vars
    /\ LET pf == execute_orders(ScenarioStart, ScenarioOrders, ScenarioClose)
       IN  /\ pf.cash = R(500000)
           /\ DOMAIN pf.positions = {"A"}
           /\ pf.positions["A"].quantity = R(5000)
           /\ portfolio_value(pf, get_prices(ScenarioOpen, DOMAIN pf.positions))
                  = R(1050000)

\* A partial sell down to a positive target: the symbol is still held and its
\* value at the closing price is total_value x target_percent up to a
\* rounding error, which is not zero.
C12_Witness ==
    /\ pc \in {"order", "mark"}
    /\ last.op = "order"
    /\ last.outcome = "sell"
    /\ last.symbol \in DOMAIN positions
    /\ FLt(Zero, orders[oi - 1].target_percent)
    /\ FLt(Zero, sizing_value)
    /\ FMul(positions[last.symbol].quantity, last.price)
           # FMul(sizing_value, orders[oi - 1].target_percent)
    /\ Near(FMul(positions[last.symbol].quantity, last.price),
            FMul(sizing_value, orders[oi - 1].target_percent), sizing_value)

\* C13: an order whose total_value x target_percent equals the symbol's
\* current value at the closing price changes neither cash nor any position;
\* the same order executed twice in a row within one date's list leaves the
\* portfolio as executing it once does.
C13_IdempotentZeroTrade ==
    /\ [][(/\ pc = "order"
           /\ oi' = oi + 1
           /\ orders[oi].symbol \in DOMAIN close_prices
           /\ FMul(sizing_value, orders[oi].target_percent)
                  = current_value(Portfolio, orders[oi].symbol,
                                  close_prices[orders[oi].symbol]))
          => (cash' = cash /\ positions' = positions)]_vars
    /\ [][(pc = "order" /\ oi' = oi + 1 /\ oi > 1 /\ orders[oi] = orders[oi - 1])
          => (cash' = cash /\ positions' = positions)]_vars
    /\ [](pc = "mark" =>
            \A k \in DOMAIN outcomes :
                (k > 1 /\ orders[k] = orders[k - 1]) =>
                    Portfolio = execute_orders(pre_exec, WithoutIndex(orders, k),
                                               close_bars))

\* C13, up to rounding: an order whose total_value x target_percent equals
\* the symbol's current value at the closing price changes neither cash nor
\* any position; the second of two equal orders in a row changes cash and the
\* value of its symbol's holding by at most 2^-48 x total_value and nothing
\* of the other symbols, as long as no value has overflowed or underflowed.
C13_IdempotentZeroTradeRounded ==
    /\ [][(/\ pc = "order"
           /\ oi' = oi + 1
           /\ orders[oi].symbol \in DOMAIN close_prices
           /\ FMul(sizing_value, orders[oi].target_percent)
                  = current_value(Portfolio, orders[oi].symbol,
                                  close_prices[orders[oi].symbol]))
          => (cash' = cash /\ positions' = positions)]_vars
    /\ [][(/\ pc = "order"
           /\ oi' = oi + 1
           /\ oi > 1
           /\ orders[oi] = orders[oi - 1]
           /\ OrderInRange)
          => LET s == orders[oi].symbol
             IN  /\ Near(cash', cash, sizing_value)
                 /\ \A o \in Symbols \ {s} :
                      /\ o \in DOMAIN positions' <=> o \in DOMAIN positions
                      /\ Held(positions', o) = Held(positions, o)
                      /\ AvgCost(positions', o) = AvgCost(positions, o)
                 /\ IF s \in DOMAIN close_prices
                    THEN Near(current_value(PortfolioNext, s, close_prices[s]),
                              current_value(Portfolio, s, close_prices[s]),
                              sizing_value)
                    ELSE positions' = positions]_vars

\* The same order twice in a row: the first bought part of the cash, the
\* second traded a quantity that is a rounding error, and not zero.
C13_Witness ==
    /\ pc = "mark"
    /\ Len(outcomes) = 2
    /\ orders[2] = orders[1]
    /\ outcomes[1] = "buy"
    /\ outcomes[2] \in {"buy", "sell"}
    /\ ~IsZero(last.quantity)
    /\ FLt(Zero, cash)
    /\ Near(FMul(last.quantity, last.price), Zero, sizing_value)

\* C14: an error raised by the policy's on_date or by the data provider
\* (calendar, closing-price or opening-price lookup) on any date leaves run as
\* that error and no result is returned; an insufficient-funds rejection of
\* Portfolio.buy is swallowed: the run goes on without an error.
C14_FaultsNotMasked ==
    /\ [](fault # "none" => (pc = "failed" /\ error = fault /\ result = "none"))
    /\ [][(pc = "order" /\ oi' = oi + 1 /\ last'.outcome = "rejected")
          => (pc' # "failed" /\ error' = "none")]_vars
    /\ [][(fault' # fault) => (cash' = cash /\ positions' = positions)]_vars

\* The provider raised ValueError in the opening-price lookup of a later
\* date, on which a buy had been rejected: the rejection was swallowed, the
\* provider's error was not.
C14_Witness ==
    /\ pc = "failed"
    /\ fault = "ValueError"
    /\ error = "ValueError"
    /\ result = "none"
    /\ Len(account_values) >= 1
    /\ \E k \in DOMAIN outcomes : outcomes[k] = "rejected"

\* C15: over dates d0..d(n-1) the policy is invoked once for each of
\* d0..d(n-2), in ascending order, and never for d(n-1); the decision,
\* execution, mark-to-market and append of a date are complete before the
\* policy is invoked for the next date, and the portfolio the policy then
\* observes is the one the previous date's execution step left.
C15_StepOrdering ==
    /\ [](LET n == Len(index_dates)
              k == Len(invoked)
          IN  /\ k <= IF n >= 2 THEN n - 1 ELSE 0
              /\ \A i \in 1..k : invoked[i] = index_dates[i]
              /\ \A i, j \in 1..k : i < j => invoked[i] < invoked[j]
              /\ pc = "done" => k = n - 1
              /\ pc \in {"execute", "order", "mark"}
                     => (Len(account_dates) = k - 1 /\ idx = k)
              /\ pc = "decide"
                     => (Len(account_dates) = k /\ idx = k + 1 /\ Portfolio = pre_exec))
    /\ [][(pc = "decide" /\ pc' = "execute")
          => (invoked' = Append(invoked, index_dates[idx])
              /\ Len(account_dates) = Len(invoked))]_vars
    /\ [][pc = "mark"
          => (pc' = "decide" /\ PortfolioNext = Portfolio /\ pre_exec' = Portfolio
              /\ account_dates' = Append(account_dates, index_dates[idx + 1]))]_vars
    /\ [][(pc \in {"execute", "order"})
          => (pc' \in {"order", "mark", "failed"})]_vars

\* A run over three dates has returned: the policy was invoked for the first
\* two dates, in order, and the portfolio traded on the way.
C15_Witness ==
    /\ pc = "done"
    /\ Len(index_dates) = 3
    /\ invoked = <<index_dates[1], index_dates[2]>>
    /\ DOMAIN positions # {}

\* C16: on a date where an ordered symbol has a closing price, the total_value
\* that sizes every order of the date is the pre-execution cash plus the sum
\* of quantity x closing price over the held symbols that have a closing price
\* on the date (the others are passed over); it is computed before the first
\* order and stays what it was while the orders of the date trade.
C16_SizingBase ==
    /\ []((pc = "order" \/ (pc = "mark" /\ DOMAIN close_prices # {}))
          => /\ OrderSymbols(orders) \cap DOMAIN close_bars # {}
             /\ sizing_value =
                    PricedValue(pre_exec.cash, pre_exec.positions, close_bars,
                                HeldInOrder(pre_exec.positions, 1)))
    /\ [][(pc = "execute" /\ pc' = "order")
          => (oi' = 1 /\ outcomes' = <<>> /\ pre_exec' = Portfolio)]_vars
    /\ [][pc = "order"
          => (sizing_value' = sizing_value /\ pre_exec' = pre_exec
              /\ close_bars' = close_bars)]_vars

\* The first order of the date has traded and a second one is about to be
\* sized, on a date where one symbol held before the execution has a positive
\* closing price and another held symbol has none.
C16_Witness ==
    /\ pc = "order"
    /\ oi = 2
    /\ outcomes[1] \in {"buy", "sell"}
    /\ \E s \in (DOMAIN pre_exec.positions) \cap (DOMAIN close_bars) :
         FLt(Zero, close_bars[s])
    /\ (DOMAIN pre_exec.positions) \ (DOMAIN close_bars) # {}
    /\ FLt(pre_exec.cash, sizing_value)

\* C17: the orders are executed one by one in the sequence the policy returned
\* them, each on the portfolio the previous one left, with no second pass: the
\* portfolio the execution step leaves is the one the one-pass loop computes,
\* and where a list of two has its buy rejected and then its sell filled, the
\* list with the sell first leaves what executing the buy once more on the
\* final portfolio leaves.  Hence there are a portfolio and two lists that
\* are permutations of each other, one with the buy rejected, the other
\* filling both, with different final cash and positions.
C17_OrderListSensitivity ==
    /\ [][(pc = "order" /\ oi' = oi + 1)
          => (/\ last'.symbol = orders[oi].symbol
              /\ Len(outcomes') = oi
              /\ PortfolioNext =
                     execute_order(Portfolio, orders[oi], close_prices,
                                   sizing_value).pf)]_vars
    /\ [](pc = "mark" /\ DOMAIN close_prices # {}
          => /\ Len(outcomes) = Len(orders)
             /\ Portfolio = execute_orders(pre_exec, orders, close_bars))
    /\ [](pc = "mark" /\ outcomes = <<"rejected", "sell">>
          => execute_orders(pre_exec, <<orders[2], orders[1]>>, close_bars)
                 = execute_order(Portfolio, orders[1], close_prices,
                                 sizing_value).pf)

\* The buy of one symbol was rejected and the reducing sell of another symbol
\* after it was filled; the same two orders with the sell first fill both and
\* leave another cash and other positions.
C17_Witness ==
    /\ pc = "mark"
    /\ outcomes = <<"rejected", "sell">>
    /\ orders[1].symbol # orders[2].symbol
    /\ orders[1].symbol \notin DOMAIN positions
    /\ orders[2].symbol \in DOMAIN positions
    /\ LET swapped == execute_orders(pre_exec, <<orders[2], orders[1]>>, close_bars)
       IN  /\ orders[1].symbol \in DOMAIN swapped.positions
           /\ swapped.positions # positions
           /\ swapped.cash # cash

\* C18: in every state of a run of the engine every symbol of the position
\* mapping has quantity > 0; a symbol enters the mapping only by a successful
\* buy of it and leaves it only by the sell that takes its quantity to zero,
\* which does remove it; an order that trades nothing for an unheld symbol
\* leaves it absent.
C18_PositionExistence ==
    /\ [](\A s \in DOMAIN positions : FLt(Zero, positions[s].quantity))
    /\ [][\A s \in Symbols :
            /\ (s \notin DOMAIN positions /\ s \in DOMAIN positions')
                   => (pc = "order" /\ last'.outcome = "buy" /\ last'.symbol = s)
            /\ (s \in DOMAIN positions /\ s \notin DOMAIN positions')
                   => (/\ pc = "order"
                       /\ last'.outcome = "sell"
                       /\ last'.symbol = s
                       /\ FLe(positions[s].quantity, FNeg(last'.quantity)))]_vars
    /\ [][(/\ pc = "order"
           /\ oi' = oi + 1
           /\ last'.outcome = "sell"
           /\ FLe(last'.held, FNeg(last'.quantity)))
          => last'.symbol \notin DOMAIN positions']_vars
    /\ [][(/\ pc = "order"
           /\ oi' = oi + 1
           /\ last'.outcome \in {"zero", "skip", "rejected"}
           /\ last'.symbol \notin DOMAIN positions)
          => (positions' = positions /\ last'.symbol \notin DOMAIN positions')]_vars

\* C18, with the overflow of the floats: every symbol of the position mapping
\* has a quantity > 0 or, after a sell of inf from a holding of inf, nan; a
\* symbol enters the mapping only by a successful buy of it and leaves it only
\* by a sell of at least its quantity, and such a sell of a finite holding
\* does remove it; an order that trades nothing for an unheld symbol leaves
\* it absent.
C18_PositionExistenceFinite ==
    /\ [](\A s \in DOMAIN positions :
            FLt(Zero, positions[s].quantity) \/ IsNaN(positions[s].quantity))
    /\ [][\A s \in Symbols :
            /\ (s \notin DOMAIN positions /\ s \in DOMAIN positions')
                   => (pc = "order" /\ last'.outcome = "buy" /\ last'.symbol = s)
            /\ (s \in DOMAIN positions /\ s \notin DOMAIN positions')
                   => (/\ pc = "order"
                       /\ last'.outcome = "sell"
                       /\ last'.symbol = s
                       /\ FLe(positions[s].quantity, FNeg(last'.quantity)))]_vars
    /\ [][(/\ pc = "order"
           /\ oi' = oi + 1
           /\ last'.outcome = "sell"
           /\ ~IsInf(last'.held)
           /\ FLe(last'.held, FNeg(last'.quantity)))
          => last'.symbol \notin DOMAIN positions']_vars
    /\ [][(/\ pc = "order"
           /\ oi' = oi + 1
           /\ last'.outcome \in {"zero", "skip", "rejected"}
           /\ last'.symbol \notin DOMAIN positions)
          => (positions' = positions /\ last'.symbol \notin DOMAIN positions')]_vars

\* A sell took a held position to zero and removed it while another position
\* stayed held.
C18_Witness ==
    /\ last.op = "order"
    /\ last.outcome = "sell"
    /\ FLt(Zero, last.held)
    /\ last.symbol \notin DOMAIN positions
    /\ DOMAIN positions # {}

\* C19: a successful buy of q > 0 at p on a position of quantity h and average
\* cost a (both 0 when unheld) leaves quantity h + q and an average cost with
\* average x (h + q) = a x h + q x p; a sell that leaves a positive quantity
\* leaves the average cost as it was; a buy of a symbol that is not held,
\* closed positions included, starts from an average cost of p.
C19_AverageCost ==
    /\ [][(calls' = calls + 1 /\ last'.op = "buy" /\ last'.outcome = "bought")
          => LET s == last'.symbol
                 q == last'.quantity
                 p == last'.price
                 h == Held(positions, s)
                 a == AvgCost(positions, s)
             IN  /\ FLt(Zero, q)
                 /\ s \in DOMAIN positions'
                 /\ positions'[s].quantity = FAdd(h, q)
                 /\ FMul(positions'[s].avg_price, FAdd(h, q))
                        = FAdd(FMul(a, h), FMul(q, p))
                 /\ s \notin DOMAIN positions => positions'[s].avg_price = p
                 /\ \A o \in DOMAIN positions : o # s => positions'[o] = positions[o]]_vars
    /\ [][(calls' = calls + 1 /\ last'.op = "sell"
           /\ last'.symbol \in DOMAIN positions')
          => /\ last'.symbol \in DOMAIN positions
             /\ positions'[last'.symbol].avg_price
                    = positions[last'.symbol].avg_price]_vars

\* C19, up to rounding: a successful buy of q > 0 at p on a position of
\* quantity h and average cost a (both 0 when unheld) leaves the quantity
\* h + q and an average cost with average x (h + q) within 2^-48 of
\* a x h + q x p; a sell that leaves a positive quantity leaves the average
\* cost as it was; a buy of a symbol that is not held, closed positions
\* included, starts from an average cost within 2^-48 of p; all this as long
\* as no value has overflowed or underflowed.
C19_AverageCostRounded ==
    /\ [][(/\ calls' = calls + 1
           /\ last'.op = "buy"
           /\ last'.outcome = "bought"
           /\ ProductInRange(last'.quantity, last'.price)
           /\ QuotientInRange(
                  FAdd(FMul(AvgCost(positions, last'.symbol),
                            Held(positions, last'.symbol)),
                       FMul(last'.quantity, last'.price)),
                  FAdd(Held(positions, last'.symbol), last'.quantity))
           /\ LedgerInRange(Portfolio, NoPrices)
           /\ LedgerInRange(PortfolioNext, NoPrices))
          => LET s == last'.symbol
                 q == last'.quantity
                 p == last'.price
                 h == Held(positions, s)
                 a == AvgCost(positions, s)
             IN  /\ FLt(Zero, q)
                 /\ s \in DOMAIN positions'
                 /\ positions'[s].quantity = FAdd(h, q)
                 /\ Near(FMul(positions'[s].avg_price, FAdd(h, q)),
                         FAdd(FMul(a, h), FMul(q, p)),
                         FAdd(FMul(a, h), FMul(q, p)))
                 /\ s \notin DOMAIN positions => Near(positions'[s].avg_price, p, p)
                 /\ \A o \in DOMAIN positions : o # s => positions'[o] = positions[o]]_vars
    /\ [][(calls' = calls + 1 /\ last'.op = "sell"
           /\ last'.symbol \in DOMAIN positions')
          => /\ last'.symbol \in DOMAIN positions
             /\ positions'[last'.symbol].avg_price
                    = positions[last'.symbol].avg_price]_vars

\* A successful buy on a held position at a price other than its average
\* cost: the new average cost is a blend, neither the price nor zero.
C19_Witness ==
    /\ last.op = "buy"
    /\ last.outcome = "bought"
    /\ FLt(Zero, last.held)
    /\ last.symbol \in DOMAIN positions
    /\ positions[last.symbol].avg_price # last.price
    /\ ~IsZero(positions[last.symbol].avg_price)
    /\ positions[last.symbol].quantity = FAdd(last.held, last.quantity)

\* C20: for every symbol, every quantity argument (positive, zero or negative)
\* and every price >= 0, a sell call never decreases cash, never increases the
\* held quantity of any symbol and never leaves a zero-quantity entry in the
\* position mapping.
C20_SellMonotone ==
    [][(calls' = calls + 1 /\ last'.op = "sell")
       => /\ FLe(cash, cash')
          /\ \A s \in Symbols : FLe(Held(positions', s), Held(positions, s))
          /\ \A s \in DOMAIN positions' : ~IsZero(positions'[s].quantity)]_vars

====
